---------------------------- MODULE Spec2Model ----------------------------
(***************************************************************************)
(* Model of pyspec's label generation pipeline                             *)
(* (pyspec/machine/labels/generate_labels.py).                             *)
(*                                                                         *)
(* LabelGenerator.generate_dataframe drives one concrete generator through *)
(* a train pass and, when the generator supplies test data, a test pass.   *)
(* Every generator reports its records through the callback closure, which *)
(* appends them to the list `data`.  One TLA+ step is one iteration of a   *)
(* generator's loop (callback included) or one statement block of          *)
(* generate_dataframe.  Python's assert statements are modelled as         *)
(* enabled (the interpreter's default); a raised exception is pc="raised". *)
(*                                                                         *)
(* A path is a tuple of its components: "in/train/clean/f1.png" is         *)
(* <<"in","train","clean","f1.png">>.                                      *)
(***************************************************************************)
EXTENDS Integers, Sequences, FiniteSets, TLC

VARIABLES
    gen,        \* the generator instance: its class and constructor fields
    source,     \* the backing store the generator reads (tree, csv files, query result)
    fs,         \* the paths for which os.path.exists is true
    pc,         \* "start" | "labels" | "returned" | "raised"
    passflag,   \* the `training` argument of the running generate_labels call
    opened,     \* CSV: the header has been read and accepted (c, f are bound)
    cursor,     \* number of source rows / matched files the running pass has consumed
    rep,        \* Similarity: repetitions done for the current base row
    data,       \* generate_dataframe's local list `data`
    calls,      \* history: the `training` argument of every generate_labels call
    emitted,    \* history: every callback invocation, in order
    checked,    \* history: every identifier the callback passed to os.path.exists
    training,   \* generate_dataframe's local `training` (the train table)
    result,     \* what generate_dataframe returned: (training, testing)
    known,      \* CSV: the files (train, test) whose contents are fixed by now
    written,    \* to_csv: the table it wrote to <input>/train.csv
    encoder,    \* Encoder: the constructor fields
    op,         \* Encoder: the entry point in use: "encode" | "encodes" | "predict"
    spectra_list, \* Encoder: the spectra handed to encode / encodes
    epc,        \* Encoder: "idle" | "call" | "parsed" | "grouped" | "filtered"
                \*          | "normalized" | "returned" | "raised" | "loop" | "done"
    index,      \* Encoder: position in spectra_list of the spectrum being encoded
    dataframe,  \* Encoder.encode's local `dataframe`
    directory   \* Encoder.encodes: the output directory and the files in it

encvars == <<encoder, op, spectra_list, epc, index, dataframe, directory>>

vars == <<gen, source, fs, pc, passflag, opened, cursor, rep, data, calls,
          emitted, checked, training, result, known, written, encvars>>

-----------------------------------------------------------------------------
(* Bounds of the model *)

MaxPerDir == 3      \* files per <input>/<split>/<category> directory

-----------------------------------------------------------------------------
(* Generic helpers *)

RECURSIVE Reverse(_)
Reverse(s) == IF s = <<>> THEN <<>> ELSE Append(Reverse(Tail(s)), Head(s))

RECURSIVE Flatten(_)
Flatten(ss) == IF ss = <<>> THEN <<>> ELSE Head(ss) \o Flatten(Tail(ss))

Range(s) == {s[i] : i \in 1..Len(s)}

\* the locator passed as `input`
Input == "in"

Splits == <<"train", "test">>
Categories == <<"clean", "dirty">>


-----------------------------------------------------------------------------
(* LabelGenerator: the capability defaults and their overrides *)

\* is_file_based(): True by default, False for the two database generators
is_file_based(g) == g.kind \notin {"MachineDB", "Similarity"}

\* contains_test_data(): True by default, False for the two database generators
contains_test_data(g) == g.kind \notin {"MachineDB", "Similarity"}

\* returns_multiple(): False by default; len(fields) > 1 for MachineDB; True for Similarity
returns_multiple(g) ==
    CASE g.kind = "MachineDB" -> Len(g.fields) > 1
      [] g.kind = "Similarity" -> TRUE
      [] OTHER -> FALSE

\* the dict the callback appends to `data`
Row(id, category, tr) == [file |-> id, class |-> category, training |-> tr]

\* the callback without its assertion
callback_passes_Unchecked(g, files, id) == TRUE

\* the callback's assertion: os.path.exists(id) is required of a file-based generator
callback_passes(g, files, id) == is_file_based(g) => id \in files

\* index of the first row of recs the callback rejects, 0 when it accepts them all
RECURSIVE FirstRejected(_, _, _, _)
FirstRejected(g, files, recs, i) ==
    IF i > Len(recs) THEN 0
    ELSE IF ~callback_passes(g, files, recs[i].file) THEN i
    ELSE FirstRejected(g, files, recs, i + 1)

\* a rejected identifier is dropped and the generator carries on
Callbacks_Swallowed(recs) ==
    LET kept == SelectSeq(recs, LAMBDA r: callback_passes(gen, fs, r.file))
    IN  /\ emitted' = emitted \o recs
        /\ checked' = IF is_file_based(gen)
                        THEN checked \o [i \in 1..Len(recs) |-> recs[i].file]
                        ELSE checked
        /\ data' = data \o kept
        /\ pc' = pc

\* The generator calls callback(id, category, training) for each row of recs, in
\* order.  A rejected identifier raises out of the callback, through the generator
\* and through generate_dataframe; nothing after it is reached.
Callbacks(recs) ==
    LET bad == FirstRejected(gen, fs, recs, 1)
        seen == IF bad = 0 THEN recs ELSE SubSeq(recs, 1, bad)
        kept == IF bad = 0 THEN recs ELSE SubSeq(recs, 1, bad - 1)
    IN  /\ emitted' = emitted \o seen
        /\ checked' = IF is_file_based(gen)
                        THEN checked \o [i \in 1..Len(seen) |-> seen[i].file]
                        ELSE checked
        /\ data' = data \o kept
        /\ pc' = IF bad = 0 THEN pc ELSE "raised"

\* self.generate_labels(input, callback, training=tr) is entered
Invoke(tr) ==
    /\ pc' = "labels"
    /\ passflag' = tr
    /\ calls' = Append(calls, tr)
    /\ opened' = FALSE
    /\ cursor' = 0
    /\ rep' = 0

\* the table built from `data` without the filter on the training flag
DataFrame_Unfiltered(rows, tr) == rows

\* DataFrame(list(filter(lambda x: x['training'] is tr, data)))
DataFrame(rows, tr) == SelectSeq(rows, LAMBDA x: x.training = tr)

NoTable == [some |-> FALSE, rows |-> <<>>]
Table(rows) == [some |-> TRUE, rows |-> rows]

-----------------------------------------------------------------------------
(* DirectoryLabelGenerator *)

\* A directory entry below <input>/<split>: the directories on the way to it, its
\* name, and whether it is a symbolic link whose target is missing.
Entry(split, dirs, name, dangling) ==
    [split |-> split, dirs |-> dirs, name |-> name, dangling |-> dangling]

EntryPath(e) == <<Input, e.split>> \o e.dirs \o <<e.name>>

FileNames == <<"f1.png", "f2.png", "f3.png", "f4.png", "f5.png">>

\* fnmatch(name, "*.png"): the suffix is .png and the name does not start with a dot
MatchesPng(name) ==
    name \in Range(FileNames) \cup {"deep.png", "link.png", "stray.png"}

\* a directory glob's ** does not descend into
HiddenDir(name) == name \in {".hid"}

RECURSIVE Dedupe(_, _)
Dedupe(s, seen) ==
    IF s = <<>> THEN <<>>
    ELSE IF Head(s) \in seen THEN Dedupe(Tail(s), seen)
    ELSE <<Head(s)>> \o Dedupe(Tail(s), seen \cup {Head(s)})

\* os.listdir("<input>/<split>"): the names directly below the split directory,
\* in the order the file system lists them
ListDir(tree, split) ==
    LET below == SelectSeq(tree, LAMBDA e: e.split = split)
    IN  Dedupe([i \in 1..Len(below) |->
                  IF below[i].dirs = <<>> THEN below[i].name ELSE below[i].dirs[1]], {})

\* the glob without ** : only the files directly in the category directory
IGlob_NotRecursive(tree, split, category) ==
    SelectSeq(tree, LAMBDA e:
        /\ e.split = split
        /\ e.dirs = <<category>>
        /\ MatchesPng(e.name))

\* iglob("<input>/<split>/<category>/**/*.png", recursive=True)
IGlob(tree, split, category) ==
    SelectSeq(tree, LAMBDA e:
        /\ e.split = split
        /\ e.dirs # <<>>
        /\ e.dirs[1] = category
        /\ \A k \in 2..Len(e.dirs) : ~HiddenDir(e.dirs[k])
        /\ MatchesPng(e.name))

\* the (file, category) pairs in the order the two nested loops reach them
DirectoryLabels(tree, tr) ==
    LET split == IF tr THEN "train" ELSE "test"
        names == ListDir(tree, split)
    IN  Flatten([i \in 1..Len(names) |->
            LET found == IGlob(tree, split, names[i])
            IN  [j \in 1..Len(found) |-> Row(EntryPath(found[j]), names[i], tr)]])

\* one iteration of the inner loop: callback(file, category, training)
DirectoryStep ==
    /\ pc = "labels"
    /\ gen.kind = "Directory"
    /\ cursor < Len(DirectoryLabels(source, passflag))
    /\ cursor' = cursor + 1
    /\ Callbacks(<<DirectoryLabels(source, passflag)[cursor + 1]>>)
    /\ UNCHANGED <<gen, source, fs, passflag, opened, rep, calls, training, result>>
    /\ UNCHANGED <<known, written, encvars>>

\* the trees the model starts from
DirFiles(split, category, n) ==
    [i \in 1..n |-> Entry(split, <<category>>, FileNames[i], FALSE)]

OddEntries ==
    { <<>> }
    \cup { <<Entry(s, <<"clean">>, "notes.txt", FALSE)>> : s \in {"train"} }
    \cup { <<Entry(s, <<"clean">>, ".h.png", FALSE)>> : s \in {"train"} }
    \cup { <<Entry(s, <<"dirty", "sub">>, "deep.png", FALSE)>> : s \in {"train", "test"} }
    \cup { <<Entry(s, <<"dirty", ".hid">>, "f5.png", FALSE)>> : s \in {"test"} }
    \cup { <<Entry(s, <<"dirty">>, "link.png", TRUE)>> : s \in {"train", "test"} }
    \cup { <<Entry(s, <<>>, "stray.png", FALSE)>> : s \in {"train", "test"} }

DirTree(n, odd, rev) ==
    LET t == Flatten([k \in 1..4 |->
                DirFiles(Splits[((k - 1) \div 2) + 1], Categories[((k - 1) % 2) + 1], n[k])])
             \o odd
    IN  IF rev THEN Reverse(t) ELSE t

DirTrees ==
    { DirTree(n, odd, rev) :
        n \in [1..4 -> 0..MaxPerDir], odd \in OddEntries, rev \in BOOLEAN }

InitDirectory ==
    /\ gen = [kind |-> "Directory"]
    /\ source \in DirTrees
    /\ fs = {EntryPath(source[i]) : i \in {j \in 1..Len(source) : ~source[j].dangling}}

-----------------------------------------------------------------------------
(* CSVLabelGenerator *)

MaxRows == 2        \* data rows of train.csv and test.csv together

\* a csv file as csv.reader sees it: a header line and the data lines after it
CsvFile(header, rows) == [isfile |-> TRUE, empty |-> FALSE, header |-> header, rows |-> rows]
MissingFile == [isfile |-> FALSE, empty |-> TRUE, header |-> <<>>, rows |-> <<>>]
EmptyFile == [isfile |-> TRUE, empty |-> TRUE, header |-> <<>>, rows |-> <<>>]

\* os.path.join(input, "train.csv") if training else os.path.join(input, "test.csv")
InputFile(tr) == IF tr THEN "train" ELSE "test"

\* the roles taken from the column positions alone: category second, id first
ColumnRoles_Positional(g, header) ==
    IF Len(header) < 2 THEN [ok |-> FALSE, c |-> 0, f |-> 0]
    ELSE IF header[1] = g.field_category THEN [ok |-> TRUE, c |-> 2, f |-> 1]
    ELSE IF header[2] = g.field_category THEN [ok |-> TRUE, c |-> 2, f |-> 1]
    ELSE [ok |-> FALSE, c |-> 0, f |-> 0]

\* an unrecognized header falling back on the default layout instead of failing
ColumnRoles_Fallback(g, header) ==
    IF Len(header) < 2 THEN [ok |-> FALSE, c |-> 0, f |-> 0]
    ELSE IF header[1] = g.field_category THEN [ok |-> TRUE, c |-> 1, f |-> 2]
    ELSE [ok |-> TRUE, c |-> 2, f |-> 1]

\* Lines 144-152: the positions (1-based) of the category and the id column, or
\* the assertion failure
ColumnRoles(g, header) ==
    IF Len(header) < 2 THEN [ok |-> FALSE, c |-> 0, f |-> 0]
    ELSE IF header[1] = g.field_category THEN [ok |-> TRUE, c |-> 1, f |-> 2]
    ELSE IF header[2] = g.field_category THEN [ok |-> TRUE, c |-> 2, f |-> 1]
    ELSE [ok |-> FALSE, c |-> 0, f |-> 0]

\* the text of a path: its components joined by "/"
RECURSIVE PathString(_)
PathString(path) ==
    IF Len(path) = 1 THEN path[1] ELSE path[1] \o "/" \o PathString(Tail(path))

\* os.path.exists(text): the existing paths whose text it is
Named(files, text) == { path \in files : PathString(path) = text }

\* the lookup below <input> tried before the literal value
Resolve_InputFirst(files, value) ==
    IF Named(files, Input \o "/" \o value) # {}
      THEN [ok |-> TRUE, file |-> CHOOSE path \in Named(files, Input \o "/" \o value) : TRUE]
    ELSE IF Named(files, value) # {}
      THEN [ok |-> TRUE, file |-> CHOOSE path \in Named(files, value) : TRUE]
    ELSE [ok |-> FALSE, file |-> <<>>]

\* Lines 155-160: the literal value first, then "<input>/<value>"
Resolve(files, value) ==
    IF Named(files, value) # {}
      THEN [ok |-> TRUE, file |-> CHOOSE path \in Named(files, value) : TRUE]
    ELSE IF Named(files, Input \o "/" \o value) # {}
      THEN [ok |-> TRUE, file |-> CHOOSE path \in Named(files, Input \o "/" \o value) : TRUE]
    ELSE [ok |-> FALSE, file |-> <<>>]

\* the file contents the model draws from
Headers ==
    { <<"file", "class">>, <<"class", "file">>, <<"label", "path">>,
      <<"class", "path">>, <<"file", "class", "training">>, <<"class">> }

IdCells == {"both.png", "sub.png", "gone.png"}
CategoryCells == {"clean"}

DataRows ==
    { <<i, c>> : i \in IdCells, c \in CategoryCells }
    \cup { <<c, i>> : i \in IdCells, c \in CategoryCells }
    \cup { <<i, c, "True">> : i \in {"both.png", "sub.png"}, c \in CategoryCells }
    \cup { <<>> }

RECURSIVE SeqsUpTo(_, _)
SeqsUpTo(S, n) ==
    IF n <= 0 THEN { <<>> }
    ELSE LET shorter == SeqsUpTo(S, n - 1)
         IN  shorter \cup { Append(q, x) : q \in {r \in shorter : Len(r) = n - 1}, x \in S }

CsvFiles(n) ==
    { CsvFile(h, rows) : h \in Headers, rows \in SeqsUpTo(DataRows, n) }
    \cup { MissingFile, EmptyFile }

\* what exists while a CSV generator runs: both.png in the working directory and
\* below <input>, sub.png only below <input>, and the directory <input>/clean
CsvFs == { <<"both.png">>, <<Input, "both.png">>, <<Input, "sub.png">>, <<Input, "clean">> }

\* Lines 129-152: the file is opened and its header read.  Its contents become
\* known here.
CSVOpen ==
    /\ pc = "labels"
    /\ gen.kind = "CSV"
    /\ ~opened
    /\ \E file \in IF InputFile(passflag) \in known
                      THEN {source[InputFile(passflag)]}
                      ELSE CsvFiles(MaxRows - Len(source.train.rows) - Len(source.test.rows)) :
         /\ source' = [source EXCEPT ![InputFile(passflag)] = file]
         /\ known' = known \cup {InputFile(passflag)}
         /\ IF /\ file.isfile
               /\ ~file.empty
               /\ ColumnRoles(gen, file.header).ok
              THEN opened' = TRUE /\ pc' = pc
              ELSE opened' = FALSE /\ pc' = "raised"
    /\ UNCHANGED <<gen, fs, passflag, cursor, rep, data, calls, emitted, checked,
                   training, result>>
    /\ UNCHANGED <<written, encvars>>

\* Lines 154-162: one data row
CSVRow ==
    /\ pc = "labels"
    /\ gen.kind = "CSV"
    /\ opened
    /\ cursor < Len(source[InputFile(passflag)].rows)
    /\ LET file == source[InputFile(passflag)]
           row == file.rows[cursor + 1]
           roles == ColumnRoles(gen, file.header)
       IN  /\ cursor' = cursor + 1
           /\ IF Len(row) < roles.f
                THEN \* row[f] raises IndexError
                     /\ pc' = "raised"
                     /\ UNCHANGED <<data, emitted, checked>>
                ELSE LET found == Resolve(fs, row[roles.f])
                     IN  IF ~found.ok \/ Len(row) < roles.c
                           THEN \* the Exception of line 160, or row[c] raises IndexError
                                /\ pc' = "raised"
                                /\ UNCHANGED <<data, emitted, checked>>
                           ELSE Callbacks(<<Row(found.file, row[roles.c], passflag)>>)
    /\ UNCHANGED <<gen, source, fs, passflag, opened, rep, calls, training, result>>
    /\ UNCHANGED <<known, written, encvars>>

CsvGenerators ==
    { [kind |-> "CSV", field_id |-> "file", field_category |-> "class"],
      [kind |-> "CSV", field_id |-> "path", field_category |-> "label"] }

InitCSV ==
    /\ gen \in CsvGenerators
    /\ source = [train |-> MissingFile, test |-> MissingFile]
    /\ fs = CsvFs

-----------------------------------------------------------------------------
(* MachineDBDataSetGenerator *)

MaxDBRows == 2      \* rows of the query result

\* one row of the query result: the feature columns and the class column
DBRow(msms, ri, class) == [msms |-> msms, ri |-> ri, class |-> class]

\* the field values collected in the reverse of the configured order
DBIdentifier_Reversed(fields, row) ==
    LET values == [k \in 1..Len(fields) |-> row[fields[Len(fields) + 1 - k]]]
    IN  IF Len(values) > 1 THEN [multiple |-> TRUE, value |-> values]
        ELSE [multiple |-> FALSE, value |-> <<values[1]>>]

\* Lines 213-229: the identifier is the list of the configured fields' values
\* when there is more than one, and the bare value when there is one
DBIdentifier(fields, row) ==
    LET values == [k \in 1..Len(fields) |-> row[fields[k]]]
    IN  IF Len(values) > 1 THEN [multiple |-> TRUE, value |-> values]
        ELSE [multiple |-> FALSE, value |-> <<values[1]>>]

\* Lines 212-229: one row of result.iterrows()
MachineDBStep ==
    /\ pc = "labels"
    /\ gen.kind = "MachineDB"
    /\ cursor < Len(source)
    /\ cursor' = cursor + 1
    /\ IF gen.fields = <<>>
         THEN \* data[0] raises IndexError
              /\ pc' = "raised"
              /\ UNCHANGED <<data, emitted, checked>>
         ELSE Callbacks(<<Row(DBIdentifier(gen.fields, source[cursor + 1]),
                              source[cursor + 1].class, passflag)>>)
    /\ UNCHANGED <<gen, source, fs, passflag, opened, rep, calls, training, result>>
    /\ UNCHANGED <<known, written, encvars>>

DBRows == { DBRow(m, r, c) : m \in {"m1", "m2"}, r \in {"r1"}, c \in {"clean", "dirty"} }

FieldLists == { <<"msms">>, <<"msms", "ri">>, <<"ri", "msms">>, <<>> }

InitMachineDB ==
    /\ gen \in { [kind |-> "MachineDB", fields |-> fl] : fl \in FieldLists }
    /\ source \in SeqsUpTo(DBRows, MaxDBRows)
    /\ fs = {}

-----------------------------------------------------------------------------
(* SimilarityDatasetLabelGenerator *)

MaxSpectra == 3     \* rows of the spectra query
MaxResample == 2    \* the resample constructor argument

\* one row of the spectra frame; spectra_id is the key of the spectrum record
Spectrum(id, name) == [spectra_id |-> id, name |-> name]

\* the frame the query returns: with a limit, its first `limit` rows
Spectra(table, limit) ==
    IF limit.some /\ limit.n < Len(table) THEN SubSeq(table, 1, limit.n) ELSE table

\* the selection without the spectra_id condition: the base row is a candidate
SameCompound_IncludesSelf(spectra, row) ==
    { i \in 1..Len(spectra) : spectra[i].name = row.name }

\* spectra.loc[(name == row.name) & (spectra_id != row.spectra_id)]: the row labels
SameCompound(spectra, row) ==
    { i \in 1..Len(spectra) :
        spectra[i].name = row.name /\ spectra[i].spectra_id # row.spectra_id }

\* spectra.loc[name != row.name]: the row labels
DifferentCompound(spectra, row) ==
    { i \in 1..Len(spectra) : spectra[i].name # row.name }

\* .sample(1).to_dict(): the sampled row under its label
Sampled(spectra, i) == [label |-> i, row |-> spectra[i]]

\* (value, partner)
Pair(value, partner) == [base |-> value, partner |-> partner]

\* function(row) without its try/except: the ValueError of sample(1) leaves the call
SimilarityStep_Propagates ==
    /\ pc = "labels"
    /\ gen.kind = "Similarity"
    /\ cursor < Len(Spectra(source, gen.limit))
    /\ LET spectra == Spectra(source, gen.limit)
           row == spectra[cursor + 1]
           same == SameCompound(spectra, row)
           different == DifferentCompound(spectra, row)
       IN  IF rep >= gen.resampling
             THEN /\ cursor' = cursor + 1
                  /\ rep' = 0
                  /\ UNCHANGED <<pc, data, emitted, checked>>
             ELSE IF same = {} \/ different = {}
             THEN /\ pc' = "raised"
                  /\ UNCHANGED <<cursor, rep, data, emitted, checked>>
             ELSE /\ \E s \in same, d \in different :
                        Callbacks(<<Row(Pair(row, Sampled(spectra, s)), TRUE, passflag),
                                    Row(Pair(row, Sampled(spectra, d)), FALSE, passflag)>>)
                  /\ IF rep + 1 >= gen.resampling
                       THEN cursor' = cursor + 1 /\ rep' = 0
                       ELSE cursor' = cursor /\ rep' = rep + 1
    /\ UNCHANGED <<gen, source, fs, passflag, opened, calls, training, result>>
    /\ UNCHANGED <<known, written, encvars>>

\* the positive pair handed to the callback before the foil is sampled
SimilarityStep_PositiveFirst ==
    /\ pc = "labels"
    /\ gen.kind = "Similarity"
    /\ cursor < Len(Spectra(source, gen.limit))
    /\ LET spectra == Spectra(source, gen.limit)
           row == spectra[cursor + 1]
           same == SameCompound(spectra, row)
           different == DifferentCompound(spectra, row)
       IN  IF rep >= gen.resampling \/ same = {}
             THEN /\ cursor' = cursor + 1
                  /\ rep' = 0
                  /\ UNCHANGED <<pc, data, emitted, checked>>
             ELSE IF different = {}
             THEN /\ \E s \in same :
                        Callbacks(<<Row(Pair(row, Sampled(spectra, s)), TRUE, passflag)>>)
                  /\ cursor' = cursor + 1
                  /\ rep' = 0
             ELSE /\ \E s \in same, d \in different :
                        Callbacks(<<Row(Pair(row, Sampled(spectra, s)), TRUE, passflag),
                                    Row(Pair(row, Sampled(spectra, d)), FALSE, passflag)>>)
                  /\ IF rep + 1 >= gen.resampling
                       THEN cursor' = cursor + 1 /\ rep' = 0
                       ELSE cursor' = cursor /\ rep' = rep + 1
    /\ UNCHANGED <<gen, source, fs, passflag, opened, calls, training, result>>
    /\ UNCHANGED <<known, written, encvars>>

\* Lines 300-321: one repetition of function(row)'s loop.  sample(1) of an empty
\* selection raises ValueError, which ends the row without a callback.
SimilarityStep ==
    /\ pc = "labels"
    /\ gen.kind = "Similarity"
    /\ cursor < Len(Spectra(source, gen.limit))
    /\ LET spectra == Spectra(source, gen.limit)
           row == spectra[cursor + 1]
           same == SameCompound(spectra, row)
           different == DifferentCompound(spectra, row)
       IN  IF rep >= gen.resampling \/ same = {} \/ different = {}
             THEN /\ cursor' = cursor + 1
                  /\ rep' = 0
                  /\ UNCHANGED <<pc, data, emitted, checked>>
             ELSE /\ \E s \in same, d \in different :
                        Callbacks(<<Row(Pair(row, Sampled(spectra, s)), TRUE, passflag),
                                    Row(Pair(row, Sampled(spectra, d)), FALSE, passflag)>>)
                  /\ IF rep + 1 >= gen.resampling
                       THEN cursor' = cursor + 1 /\ rep' = 0
                       ELSE cursor' = cursor /\ rep' = rep + 1
    /\ UNCHANGED <<gen, source, fs, passflag, opened, calls, training, result>>
    /\ UNCHANGED <<known, written, encvars>>

CompoundNames == {"A", "B"}

SpectraTables ==
    UNION { { [i \in 1..n |-> Spectrum(100 + i, names[i])] : names \in [1..n -> CompoundNames] }
            : n \in 0..MaxSpectra }

Limits == { [some |-> FALSE, n |-> 0], [some |-> TRUE, n |-> 2] }

InitSimilarity ==
    /\ gen \in { [kind |-> "Similarity", resampling |-> r, limit |-> l] :
                   r \in 0..MaxResample, l \in Limits }
    /\ source \in SpectraTables
    /\ fs = {}

-----------------------------------------------------------------------------
(* LabelGenerator.generate_dataframe *)

\* to_csv has not written anything
NotWritten == [done |-> FALSE, table |-> <<>>]

InitCall ==
    /\ pc = "start"
    /\ passflag = TRUE
    /\ opened = FALSE
    /\ cursor = 0
    /\ rep = 0
    /\ data = <<>>
    /\ calls = <<>>
    /\ emitted = <<>>
    /\ checked = <<>>
    /\ training = <<>>
    /\ result = [returned |-> FALSE, training |-> <<>>, testing |-> NoTable]
    /\ known = {}
    /\ written = NotWritten

\* data = []; self.generate_labels(input, callback, training=True)
GenerateDataframe ==
    /\ pc = "start"
    /\ data' = <<>>
    /\ Invoke(TRUE)
    /\ UNCHANGED <<gen, source, fs, emitted, checked, training, result>>
    /\ UNCHANGED <<known, written, encvars>>

\* the running generate_labels call has nothing left to iterate over
Exhausted ==
    CASE gen.kind = "Directory" -> cursor = Len(DirectoryLabels(source, passflag))
      [] gen.kind = "CSV" -> opened /\ cursor = Len(source[InputFile(passflag)].rows)
      [] gen.kind = "MachineDB" -> cursor = Len(source)
      [] gen.kind = "Similarity" -> cursor = Len(Spectra(source, gen.limit))

\* generate_dataframe returning after the train pass whatever the generator is
TrainDone_NoTestPass ==
    /\ pc = "labels"
    /\ ~written.done
    /\ Len(calls) = 1
    /\ Exhausted
    /\ training' = DataFrame(data, TRUE)
    /\ result' = [returned |-> TRUE, training |-> DataFrame(data, TRUE),
                  testing |-> NoTable]
    /\ pc' = "returned"
    /\ UNCHANGED <<gen, source, fs, data, emitted, checked, passflag, calls, opened,
                   cursor, rep>>
    /\ UNCHANGED <<known, written, encvars>>

\* the train pass returned: build the train table, then either start the test
\* pass or return (training, None)
TrainDone ==
    /\ pc = "labels"
    /\ ~written.done
    /\ Len(calls) = 1
    /\ Exhausted
    /\ training' = DataFrame(data, TRUE)
    /\ IF contains_test_data(gen)
         THEN /\ Invoke(FALSE)
              /\ UNCHANGED result
         ELSE /\ result' = [returned |-> TRUE, training |-> DataFrame(data, TRUE),
                            testing |-> NoTable]
              /\ pc' = "returned"
              /\ UNCHANGED <<passflag, calls, opened, cursor, rep>>
    /\ UNCHANGED <<gen, source, fs, data, emitted, checked>>
    /\ UNCHANGED <<known, written, encvars>>

\* the test pass returned: build the test table and return (training, testing)
TestDone ==
    /\ pc = "labels"
    /\ Len(calls) = 2
    /\ Exhausted
    /\ result' = [returned |-> TRUE, training |-> training,
                  testing |-> Table(DataFrame(data, FALSE))]
    /\ pc' = "returned"
    /\ UNCHANGED <<gen, source, fs, passflag, opened, cursor, rep, data, calls,
                   emitted, checked, training>>
    /\ UNCHANGED <<known, written, encvars>>

-----------------------------------------------------------------------------
(* LabelGenerator.to_csv, and reading its file back with CSVLabelGenerator *)

\* DataFrame.to_csv(file_name, encoding='utf-8', index=False): a header line of
\* the frame's columns and one line per row.  The columns come from the keys of
\* the row dicts, in insertion order or, with an older pandas, sorted; a frame
\* built from no rows has no columns, and its header line is empty.
ToCsvFile(table, sorted) ==
    IF table = <<>> THEN CsvFile(<<>>, <<>>)
    ELSE IF sorted
      THEN CsvFile(<<"class", "file", "training">>,
                   [k \in 1..Len(table) |->
                       <<table[k].class, PathString(table[k].file), "True">>])
      ELSE CsvFile(<<"file", "class", "training">>,
                   [k \in 1..Len(table) |->
                       <<PathString(table[k].file), table[k].class, "True">>])

\* Lines 89-90 of to_csv(input, "<input>/train.csv", training=True), reached when
\* its generate_dataframe call has returned
ToCsv ==
    /\ pc = "returned"
    /\ ~written.done
    /\ is_file_based(gen)
    /\ \E sorted \in BOOLEAN :
         source' = [train |-> ToCsvFile(result.training, sorted),
                    test |-> IF gen.kind = "CSV" THEN source.test ELSE MissingFile]
    /\ known' = IF gen.kind = "CSV" THEN known \cup {"train"} ELSE {"train"}
    /\ written' = [done |-> TRUE, table |-> result.training]
    /\ pc' = "written"
    /\ UNCHANGED <<gen, fs, passflag, opened, cursor, rep, data, calls, emitted,
                   checked, training, result, encvars>>

\* CSVLabelGenerator().generate_labels(input, callback, training=True) with a
\* fresh callback
Reread ==
    /\ pc = "written"
    /\ gen' = [kind |-> "CSV", field_id |-> "file", field_category |-> "class"]
    /\ data' = <<>>
    /\ emitted' = <<>>
    /\ checked' = <<>>
    /\ calls' = <<TRUE>>
    /\ pc' = "labels"
    /\ passflag' = TRUE
    /\ opened' = FALSE
    /\ cursor' = 0
    /\ rep' = 0
    /\ UNCHANGED <<source, fs, training, result, known, written, encvars>>

\* that generate_labels call returns to its caller
LabelsDone ==
    /\ pc = "labels"
    /\ written.done
    /\ Exhausted
    /\ pc' = "reread"
    /\ UNCHANGED <<gen, source, fs, passflag, opened, cursor, rep, data, calls,
                   emitted, checked, training, result, known, written, encvars>>

-----------------------------------------------------------------------------
(* Encoder (machine/spectra.py) *)

MaxPeaks == 3       \* peaks of the spectra handed to one call, all together

\* Masses are held in millionths of a mass unit, so that a mass with six
\* decimal digits is an integer and rounding to five digits is arithmetic.
Unit == 1000000

\* the mass numerals a pair may carry: 0.999998, 1.0 and 2.0
Masses == {999998, 1000000, 2000000}

\* the intensity numerals a pair may carry
Intensities == {1, 3}

\* one "mass:intensity" token of spec.spectra; the string is the sequence of
\* its tokens, separated by " "
Pairs == [mass : Masses, intensity : Intensities]

\* the pandas frame column names of line 53
Columns == <<"intensity", "mz", "nominal", "frac">>

\* round(x, 5) of a mass (no mass of the model lies on a tie)
Round5(m) == ((m + 5) \div 10) * 10

\* round(frac, 4) of a fractional part
Round4(f) == ((f + 50) \div 100) * 100

\* lines 40-51: mass, intensity = pair.split(":"); math.modf(float(mass))
ParsePair(pair) ==
    [intensity |-> pair.intensity,
     mz        |-> pair.mass,
     nominal   |-> pair.mass \div Unit,
     frac      |-> Round4(pair.mass % Unit)]

\* lines 34-53: the frame built from spec.spectra.split(" ")
ParseSpectrum(spec) == [k \in 1..Len(spec) |-> ParsePair(spec[k])]

\* the elements of a set of numbers in increasing order
RECURSIVE SortSet(_)
SortSet(S) ==
    IF S = {} THEN <<>>
    ELSE LET m == CHOOSE x \in S : \A y \in S : x <= y
         IN  <<m>> \o SortSet(S \ {m})

\* the grouping key of line 56, per row
GroupKeys(rows) == { Round5(rows[k].mz) : k \in 1..Len(rows) }

\* the sum of one column over the rows of one group
RECURSIVE SumColumn(_, _, _)
SumColumn(rows, key, col) ==
    IF rows = <<>> THEN 0
    ELSE (IF Round5(Head(rows).mz) = key THEN Head(rows)[col] ELSE 0)
         + SumColumn(Tail(rows), key, col)

\* a grouping that keeps the last member's intensity instead of the sum
GroupBySum_LastWins(rows) ==
    LET keys == SortSet(GroupKeys(rows))
        last(key) == CHOOSE k \in 1..Len(rows) :
                        /\ Round5(rows[k].mz) = key
                        /\ \A j \in (k + 1)..Len(rows) : Round5(rows[j].mz) # key
    IN  [j \in 1..Len(keys) |->
            [key       |-> keys[j],
             intensity |-> rows[last(keys[j])].intensity,
             mz        |-> SumColumn(rows, keys[j], "mz"),
             nominal   |-> SumColumn(rows, keys[j], "nominal"),
             frac      |-> SumColumn(rows, keys[j], "frac")]]

\* line 56: dataframe.groupby(dataframe['mz'].apply(round 5)).sum(): one row
\* per key, in key order, EVERY column summed over the group's rows
GroupBySum(rows) ==
    LET keys == SortSet(GroupKeys(rows))
    IN  [j \in 1..Len(keys) |->
            [key       |-> keys[j],
             intensity |-> SumColumn(rows, keys[j], "intensity"),
             mz        |-> SumColumn(rows, keys[j], "mz"),
             nominal   |-> SumColumn(rows, keys[j], "nominal"),
             frac      |-> SumColumn(rows, keys[j], "frac")]]

\* line 59: the rows whose nominal column lies in [min_mz, max_mz]
InRange(frame, enc) ==
    LET keep(g) == g.nominal >= enc.min_mz /\ g.nominal <= enc.max_mz
    IN  SelectSeq(frame, keep)

\* the largest and the smallest intensity of a frame that has rows
IntensityMax(frame) ==
    CHOOSE x \in { frame[k].intensity : k \in 1..Len(frame) } :
        \A k \in 1..Len(frame) : frame[k].intensity <= x

IntensityMin(frame) ==
    CHOOSE x \in { frame[k].intensity : k \in 1..Len(frame) } :
        \A k \in 1..Len(frame) : frame[k].intensity >= x

\* float division as pandas does it: a quotient, and nan for 0 / 0
Divide(num, den) == [nan |-> (den = 0), num |-> num, den |-> den]

\* lines 61-62: the intensity_min_max column
MinMax(frame) ==
    [k \in 1..Len(frame) |->
        [key       |-> frame[k].key,
         intensity |-> frame[k].intensity,
         mz        |-> frame[k].mz,
         nominal   |-> frame[k].nominal,
         frac      |-> frame[k].frac,
         intensity_min_max |->
             Divide(frame[k].intensity - IntensityMin(frame),
                    IntensityMax(frame) - IntensityMin(frame))]]

\* the names bound in encode's frame when line 88 is evaluated
Locals ==
    {"self", "spec", "data", "pairs", "pair", "mass", "intensity", "frac", "whole",
     "dataframe", "fig", "widths", "heights", "specs", "ax0", "ax1", "ax2"}

\* the names bound at module level (lines 1-15)
Globals ==
    {"random", "List", "plt", "Normalize", "Colormap", "griddata", "np", "math",
     "pd", "sns", "Spectra", "Encoder"}

\* the builtins the method uses
Builtins == {"float", "int", "round", "len"}

\* a name evaluates without NameError
Bound(name) == name \in Locals \cup Globals \cup Builtins

\* Splash().splash(Spectrum(spec.spectra, SpectrumType.MS)): the hash is a
\* function of the spectrum string alone
Splash(spec) == spec

labelvars == <<gen, source, fs, pc, passflag, opened, cursor, rep, data, calls,
               emitted, checked, training, result, known, written>>

\* encoder.encode(spectra), called directly or from predict_from_spectra
Enter ==
    /\ epc = "idle"
    /\ op \in {"encode", "predict"}
    /\ index' = 1
    /\ epc' = "call"
    /\ UNCHANGED <<encoder, op, spectra_list, dataframe, directory, labelvars>>

\* encodes, lines 108-111
Mkdir ==
    /\ epc = "idle"
    /\ op = "encodes"
    /\ directory' = [directory EXCEPT !.exists = TRUE]
    /\ epc' = "loop"
    /\ UNCHANGED <<encoder, op, spectra_list, index, dataframe, labelvars>>

\* encodes, lines 112-113: the next spectrum is handed to encode
NextSpectrum ==
    /\ epc = "loop"
    /\ index < Len(spectra_list)
    /\ index' = index + 1
    /\ epc' = "call"
    /\ UNCHANGED <<encoder, op, spectra_list, dataframe, directory, labelvars>>

\* encodes: the loop of line 112 is exhausted
EncodesDone ==
    /\ epc = "loop"
    /\ index = Len(spectra_list)
    /\ epc' = "done"
    /\ UNCHANGED <<encoder, op, spectra_list, index, dataframe, directory, labelvars>>

\* encode, lines 34-53
Parse ==
    /\ epc = "call"
    /\ dataframe' = ParseSpectrum(spectra_list[index])
    /\ epc' = "parsed"
    /\ UNCHANGED <<encoder, op, spectra_list, index, directory, labelvars>>

\* encode, line 56
Group ==
    /\ epc = "parsed"
    /\ dataframe' = GroupBySum(dataframe)
    /\ epc' = "grouped"
    /\ UNCHANGED <<encoder, op, spectra_list, index, directory, labelvars>>

\* encode, line 59
Filter ==
    /\ epc = "grouped"
    /\ dataframe' = InRange(dataframe, encoder)
    /\ epc' = "filtered"
    /\ UNCHANGED <<encoder, op, spectra_list, index, directory, labelvars>>

\* encode, lines 61-62
Normalize ==
    /\ epc = "filtered"
    /\ dataframe' = MinMax(dataframe)
    /\ epc' = "normalized"
    /\ UNCHANGED <<encoder, op, spectra_list, index, directory, labelvars>>

\* encode, lines 65-95, and what the caller does with the returned pyplot
\* module: encodes saves the figure under the hash (lines 114-115) and loops,
\* predict_from_spectra hands the module to np.fromstring, which raises
Render ==
    /\ epc = "normalized"
    /\ IF ~Bound("axis")
         THEN epc' = "raised" /\ UNCHANGED directory
       ELSE IF op = "encodes"
         THEN /\ directory' = [directory EXCEPT
                                  !.files = @ \cup {Splash(spectra_list[index])}]
              /\ epc' = "loop"
       ELSE IF op = "predict"
         THEN epc' = "raised" /\ UNCHANGED directory
       ELSE epc' = "returned" /\ UNCHANGED directory
    /\ UNCHANGED <<encoder, op, spectra_list, index, dataframe, labelvars>>

\* the spectra strings of at most n peaks
SpectraUpTo(n) == UNION { [1..k -> Pairs] : k \in 1..n }

\* the lists of spectra with at most n peaks in all
RECURSIVE Batches(_)
Batches(n) ==
    {<<>>} \cup
    UNION { { <<spec>> \o rest : rest \in Batches(n - Len(spec)) } : spec \in SpectraUpTo(n) }

DefaultMinMz == 0
DefaultMaxMz == 2000

\* the [min_mz, max_mz] windows of the encoders: the default one and two narrow ones
Windows == { <<DefaultMinMz, DefaultMaxMz>>, <<1, 1>>, <<2, 2>> }

Encoders ==
    { [min_mz |-> w[1], max_mz |-> w[2], axis |-> a] : w \in Windows, a \in BOOLEAN }

\* no label generator is in use
NoGenerator ==
    /\ InitCall
    /\ gen = [kind |-> "none"]
    /\ source = <<>>
    /\ fs = {}

InitEncode ==
    /\ NoGenerator
    /\ encoder \in Encoders
    /\ op \in {"encode", "encodes", "predict"}
    /\ IF op = "encodes"
         THEN /\ spectra_list \in Batches(MaxPeaks)
              /\ directory \in { [exists |-> e, files |-> {}] : e \in BOOLEAN }
         ELSE /\ spectra_list \in { <<spec>> : spec \in SpectraUpTo(MaxPeaks) }
              /\ directory = [exists |-> FALSE, files |-> {}]
    /\ epc = "idle"
    /\ index = 0
    /\ dataframe = <<>>

-----------------------------------------------------------------------------
(* Specifications *)

\* no Encoder is in use
NoEncoder ==
    /\ encoder = [min_mz |-> 0, max_mz |-> 0, axis |-> FALSE]
    /\ op = "none"
    /\ spectra_list = <<>>
    /\ epc = "idle"
    /\ index = 0
    /\ dataframe = <<>>
    /\ directory = [exists |-> FALSE, files |-> {}]

Init == InitCall /\ NoEncoder /\ (InitDirectory \/ InitCSV \/ InitMachineDB \/ InitSimilarity)

Next ==
    \/ GenerateDataframe
    \/ DirectoryStep
    \/ CSVOpen
    \/ CSVRow
    \/ MachineDBStep
    \/ SimilarityStep
    \/ TrainDone
    \/ TestDone

Spec == Init /\ [][Next]_vars

\* a file-based generator's to_csv followed by a CSVLabelGenerator on the same input
InitRoundTrip == InitCall /\ NoEncoder /\ (InitDirectory \/ InitCSV)

NextRoundTrip ==
    \/ GenerateDataframe
    \/ DirectoryStep
    \/ CSVOpen
    \/ CSVRow
    \/ TrainDone
    \/ TestDone
    \/ ToCsv
    \/ Reread
    \/ LabelsDone

SpecRoundTrip == InitRoundTrip /\ [][NextRoundTrip]_vars

\* an Encoder encoding one spectrum (encode, predict_from_spectra) or a batch (encodes)
NextEncode ==
    \/ Enter
    \/ Mkdir
    \/ NextSpectrum
    \/ EncodesDone
    \/ Parse
    \/ Group
    \/ Filter
    \/ Normalize
    \/ Render

SpecEncode == InitEncode /\ [][NextEncode]_vars

-----------------------------------------------------------------------------
(* Properties of generate_dataframe *)

\* the generators that keep LabelGenerator's defaults
DefaultKinds == {"Directory", "CSV"}

Flagged(rows, tr) == SelectSeq(rows, LAMBDA x: x.training = tr)

\* C1: generate_dataframe first calls generate_labels with training=True; it calls
\* it a second time, with training=False, and returns a test table if and only if
\* the generator supplies test data; otherwise generate_labels is called exactly
\* once and the returned test table is None.
C1_PassOrder ==
    /\ pc # "start" => Len(calls) >= 1 /\ calls[1] = TRUE
    /\ Len(calls) <= 2
    /\ Len(calls) = 2 => calls[2] = FALSE /\ gen.kind \in DefaultKinds
    /\ result.returned =>
         IF gen.kind \in DefaultKinds
           THEN calls = <<TRUE, FALSE>> /\ result.testing.some
           ELSE calls = <<TRUE>> /\ ~result.testing.some

C1_Witness ==
    /\ result.returned
    /\ calls = <<TRUE, FALSE>>
    /\ result.training # <<>>
    /\ result.testing.rows # <<>>

\* C2: when a generator that supplies test data returns, the two tables partition
\* the records emitted during the call: the train table is the emitted records
\* flagged training, the test table the ones flagged not training, each in
\* emission order, and nothing else is in either.
C2_TablesPartitionEmitted ==
    (result.returned /\ result.testing.some) =>
        /\ result.training = Flagged(emitted, TRUE)
        /\ result.testing.rows = Flagged(emitted, FALSE)
        /\ Len(result.training) + Len(result.testing.rows) = Len(emitted)
        /\ result.training \o result.testing.rows = emitted

C2_Witness ==
    /\ result.returned
    /\ result.testing.some
    /\ Len(result.training) >= 2
    /\ Len(result.testing.rows) >= 2
    /\ result.training[1] # result.training[2]

\* C3: for a file-based generator every identifier given to the callback is
\* existence-checked, a row is recorded only for an identifier that exists, and
\* the first missing identifier ends the call: it is the last one seen.  For a
\* generator that is not file-based nothing is checked and every row is recorded.
C3_ExistenceChecked ==
    IF gen.kind \in DefaultKinds
      THEN /\ checked = [i \in 1..Len(emitted) |-> emitted[i].file]
           /\ \A i \in 1..Len(emitted) :
                emitted[i].file \notin fs =>
                    /\ i = Len(emitted)
                    /\ pc = "raised"
                    /\ data = SubSeq(emitted, 1, i - 1)
           /\ (\A i \in 1..Len(emitted) : emitted[i].file \in fs) => data = emitted
           /\ \A k \in 1..Len(data) : data[k].file \in fs
      ELSE /\ checked = <<>>
           /\ data = emitted

C3_Witness ==
    /\ gen.kind = "Directory"
    /\ pc = "raised"
    /\ Len(emitted) >= 2
    /\ emitted[Len(emitted)].file \notin fs
    /\ data = SubSeq(emitted, 1, Len(emitted) - 1)
    /\ cursor < Len(DirectoryLabels(source, passflag))

\* C4: a failure in either pass aborts the call: once an exception is raised
\* nothing is ever returned, and a call that returns has recorded every record
\* its generator emitted, none of them a missing file.
C4_FailureAborts ==
    /\ [](pc = "raised" => ~result.returned)
    /\ [](result.returned =>
            /\ pc = "returned"
            /\ data = emitted
            /\ gen.kind \in DefaultKinds => \A i \in 1..Len(emitted) : emitted[i].file \in fs)
    /\ [][pc = "raised" => (pc' = "raised" /\ result' = result)]_vars

C4_Witness ==
    /\ pc = "raised"
    /\ Len(calls) = 2
    /\ training # <<>>
    /\ ~result.returned

-----------------------------------------------------------------------------
(* Properties of CSVLabelGenerator *)

\* the file of pass tr has been opened and had a header line
HeaderRead(tr) == source[InputFile(tr)].isfile /\ ~source[InputFile(tr)].empty

\* the header of pass tr's file was accepted: the call went on to the data rows
HeaderAccepted(tr) == IF passflag = tr THEN opened ELSE TRUE

\* the two headers made of the configured id and category names
RecognizedHeaders(g) ==
    { <<g.field_id, g.field_category>>, <<g.field_category, g.field_id>> }

ColumnNamed(header, name) == CHOOSE i \in 1..Len(header) : header[i] = name

\* C5: a header is accepted only if it is made of exactly the id column name and
\* the category column name, in either order; every other header is fatal.
C5_OnlyRecognizedHeaders ==
    gen.kind = "CSV" =>
        \A tr \in BOOLEAN :
            HeaderRead(tr) =>
                (HeaderAccepted(tr) <=> source[InputFile(tr)].header \in RecognizedHeaders(gen))

\* C6: under a header made of the two recognized names, in either order, every
\* emitted record has the value of the column named field_category as its
\* category and a path made from the value of the column named field_id as its
\* identifier.
C6_RolesByName ==
    gen.kind = "CSV" =>
        \A tr \in BOOLEAN :
            LET file == source[InputFile(tr)]
                recs == Flagged(emitted, tr)
            IN  (HeaderRead(tr) /\ file.header \in RecognizedHeaders(gen)) =>
                    \A k \in 1..Len(recs) :
                        LET row == file.rows[k]
                            id == row[ColumnNamed(file.header, gen.field_id)]
                        IN  /\ recs[k].class = row[ColumnNamed(file.header, gen.field_category)]
                            /\ recs[k].file \in { <<id>>, <<Input, id>> }

C6_Witness ==
    /\ gen.kind = "CSV"
    /\ gen.field_category = "class"
    /\ HeaderRead(TRUE)
    /\ source.train.header = <<"class", "file">>
    /\ source.train.rows = << <<"clean", "sub.png">>, <<"clean", "both.png">> >>
    /\ Len(emitted) = 2

\* C7: a header that contains neither recognized column name is fatal before the
\* callback is called for any data row of that file.
C7_UnrecognizedHeaderFatal ==
    gen.kind = "CSV" =>
        \A tr \in BOOLEAN :
            LET file == source[InputFile(tr)]
            IN  (/\ HeaderRead(tr)
                 /\ \A i \in 1..Len(file.header) :
                        file.header[i] \notin {gen.field_id, gen.field_category}) =>
                    /\ pc = "raised"
                    /\ ~opened
                    /\ passflag = tr
                    /\ Flagged(emitted, tr) = <<>>

C7_Witness ==
    /\ gen.kind = "CSV"
    /\ gen.field_category = "class"
    /\ source.train.isfile
    /\ source.train.header = <<"label", "path">>
    /\ source.train.rows = << <<"both.png", "clean">>, <<"sub.png", "clean">> >>
    /\ pc = "raised"

\* C8: each data row's id value is emitted as the literal path when that exists,
\* else as the path below <input> when that exists; a value that exists in
\* neither place is fatal, with the rows before it emitted in file order and no
\* row after it read.
C8_ResolutionOrder ==
    (gen.kind = "CSV" /\ opened) =>
        LET file == source[InputFile(passflag)]
            f == ColumnRoles(gen, file.header).f
            recs == Flagged(emitted, passflag)
            Neither(k) == /\ Len(file.rows[k]) >= f
                          /\ <<file.rows[k][f]>> \notin fs
                          /\ <<Input, file.rows[k][f]>> \notin fs
        IN  /\ pc = "labels" => Len(recs) = cursor
            /\ pc = "raised" => Len(recs) = cursor - 1
            /\ \A k \in 1..Len(recs) :
                   LET value == file.rows[k][f]
                   IN  /\ <<value>> \in fs => recs[k].file = <<value>>
                       /\ <<value>> \notin fs =>
                            /\ <<Input, value>> \in fs
                            /\ recs[k].file = <<Input, value>>
            /\ \A k \in 1..Len(file.rows) :
                   Neither(k) => (cursor <= k /\ (cursor = k => pc = "raised"))

C8_Witness ==
    /\ gen.kind = "CSV"
    /\ opened
    /\ passflag
    /\ source.train.rows = << <<"both.png", "clean">>, <<"gone.png", "clean">> >>
    /\ pc = "raised"
    /\ cursor = 2
    /\ Len(emitted) = 1
    /\ emitted[1].file = <<"both.png">>

-----------------------------------------------------------------------------
(* Properties of DirectoryLabelGenerator *)

\* the entries of the tree that are image files the recursive pattern finds below
\* a category directory of the split: visible *.png names in visible directories
ImageFiles(split) ==
    { i \in 1..Len(source) :
        /\ source[i].split = split
        /\ Len(source[i].dirs) >= 1
        /\ \A k \in 2..Len(source[i].dirs) : ~HiddenDir(source[i].dirs[k])
        /\ MatchesPng(source[i].name) }

\* the table holds exactly one row for every image file of the split, labelled
\* with the file's category directory and the pass's flag, and nothing else
OneRowPerFile(table, split, tr) ==
    /\ Len(table) = Cardinality(ImageFiles(split))
    /\ \A i \in ImageFiles(split) :
         Cardinality({ k \in 1..Len(table) :
            table[k] = Row(EntryPath(source[i]), source[i].dirs[1], tr) }) = 1

\* C9: the directory generator emits exactly one record per image file found
\* below <input>/train/<category>/ in the train pass and below
\* <input>/test/<category>/ in the test pass, labelled with its category
\* directory and the pass's flag, so a returned train (test) table has one row
\* per train (test) file, and every identifier in them exists.
C9_OneRecordPerImage ==
    gen.kind = "Directory" =>
        /\ \A k \in 1..Len(emitted) :
             /\ \E i \in ImageFiles(IF emitted[k].training THEN "train" ELSE "test") :
                  emitted[k] = Row(EntryPath(source[i]), source[i].dirs[1], emitted[k].training)
             /\ \A j \in 1..Len(emitted) : emitted[j] = emitted[k] => j = k
        /\ (Len(calls) = 2 /\ pc # "raised") => OneRowPerFile(Flagged(emitted, TRUE), "train", TRUE)
        /\ result.returned =>
             /\ OneRowPerFile(result.training, "train", TRUE)
             /\ OneRowPerFile(result.testing.rows, "test", FALSE)
             /\ \A k \in 1..Len(result.training) : result.training[k].file \in fs
             /\ \A k \in 1..Len(result.testing.rows) : result.testing.rows[k].file \in fs

CountClass(table, category) ==
    Cardinality({ k \in 1..Len(table) : table[k].class = category })

C9_Witness ==
    /\ gen.kind = "Directory"
    /\ result.returned
    /\ Len(result.training) = 5
    /\ CountClass(result.training, "clean") = 3
    /\ CountClass(result.training, "dirty") = 2
    /\ Len(result.testing.rows) = 2
    /\ CountClass(result.testing.rows, "clean") = 1
    /\ CountClass(result.testing.rows, "dirty") = 1

-----------------------------------------------------------------------------
(* Properties of SimilarityDatasetLabelGenerator *)

\* the records emitted for base row b with the given category
PairsOf(b, category) ==
    SelectSeq(data, LAMBDA r: r.file.base = Spectra(source, gen.limit)[b] /\ r.class = category)

\* base row b has another record of its compound and a record of another compound
HasSiblingAndFoil(b) ==
    LET spectra == Spectra(source, gen.limit)
    IN  /\ \E j \in 1..Len(spectra) : j # b /\ spectra[j].name = spectra[b].name
        /\ \E j \in 1..Len(spectra) : spectra[j].name # spectra[b].name

\* C10: every base record that has another record of the same compound and a
\* record of a different compound gets exactly `resampling` positive pairs, each
\* with a partner of the same name and a different spectra_id, and exactly
\* `resampling` negative pairs, each with a partner of a different name.
C10_PairsPerBase ==
    (gen.kind = "Similarity" /\ pc \in {"labels", "returned"}) =>
        \A b \in 1..cursor :
            HasSiblingAndFoil(b) =>
                LET base == Spectra(source, gen.limit)[b]
                    pos == PairsOf(b, TRUE)
                    neg == PairsOf(b, FALSE)
                IN  /\ Len(pos) = gen.resampling
                    /\ Len(neg) = gen.resampling
                    /\ \A k \in 1..Len(pos) :
                         /\ pos[k].file.partner.row.name = base.name
                         /\ pos[k].file.partner.row.spectra_id # base.spectra_id
                    /\ \A k \in 1..Len(neg) :
                         neg[k].file.partner.row.name # base.name

C10_Witness ==
    /\ gen.kind = "Similarity"
    /\ result.returned
    /\ gen.resampling = 2
    /\ \E b \in 1..Len(Spectra(source, gen.limit)) :
         HasSiblingAndFoil(b) /\ Len(PairsOf(b, TRUE)) = 2 /\ Len(PairsOf(b, FALSE)) = 2

\* base row b has no other record of its compound
IsSingleton(b) ==
    LET spectra == Spectra(source, gen.limit)
    IN  \A j \in 1..Len(spectra) : j # b => spectra[j].name # spectra[b].name

\* C11: a base record without another record of its compound gets no positive
\* pair, the call does not abort, and the other base records are all processed
\* and get their pairs.
C11_SingletonSkipped ==
    gen.kind = "Similarity" =>
        /\ pc # "raised"
        /\ pc \in {"labels", "returned"} =>
             \A b \in 1..cursor : IsSingleton(b) => PairsOf(b, TRUE) = <<>>
        /\ result.returned =>
             /\ cursor = Len(Spectra(source, gen.limit))
             /\ result.training = data
             /\ \A b \in 1..cursor :
                  HasSiblingAndFoil(b) =>
                      /\ Len(PairsOf(b, TRUE)) = gen.resampling
                      /\ Len(PairsOf(b, FALSE)) = gen.resampling

C11_Witness ==
    /\ gen.kind = "Similarity"
    /\ result.returned
    /\ \E b \in 1..cursor :
         /\ IsSingleton(b)
         /\ \E later \in (b + 1)..cursor : Len(PairsOf(later, TRUE)) >= 1

\* C19: every base record contributes no record or exactly 2 * resampling
\* records; a positive pair is always directly followed by the negative pair of
\* the same base, so after every repetition as many positive as negative records
\* have been emitted; a base record with siblings but without a record of another
\* compound emits nothing.
C19_PairsComeTogether ==
    gen.kind = "Similarity" =>
        /\ Len(data) % 2 = 0
        /\ \A k \in 1..Len(data) :
             k % 2 = 1 =>
                 /\ data[k].class = TRUE
                 /\ data[k + 1].class = FALSE
                 /\ data[k + 1].file.base = data[k].file.base
        /\ Len(Flagged(data, TRUE)) = Len(data)
        /\ pc \in {"labels", "returned"} =>
             \A b \in 1..cursor :
                 /\ Len(PairsOf(b, TRUE)) + Len(PairsOf(b, FALSE)) \in {0, 2 * gen.resampling}
                 /\ (~IsSingleton(b) /\ ~HasSiblingAndFoil(b)) =>
                        Len(PairsOf(b, TRUE)) + Len(PairsOf(b, FALSE)) = 0

C19_Witness ==
    /\ gen.kind = "Similarity"
    /\ gen.resampling = 2
    /\ result.returned
    /\ cursor = 2
    /\ ~IsSingleton(1)
    /\ ~HasSiblingAndFoil(1)
    /\ data = <<>>

-----------------------------------------------------------------------------
(* Properties of MachineDBDataSetGenerator *)

\* C18: one record per row of the query result, in result order; its identifier
\* is the one field's value when one field is configured and the sequence of the
\* configured fields' values, in configured order, when there are several; its
\* category is the row's class column; returns_multiple() tells which of the two
\* it is; nothing is existence-checked and the returned test table is None.
C18_OneRecordPerResultRow ==
    gen.kind = "MachineDB" =>
        /\ checked = <<>>
        /\ pc = "labels" => Len(emitted) = cursor
        /\ data = emitted
        /\ \A k \in 1..Len(emitted) :
             /\ emitted[k].class = source[k].class
             /\ emitted[k].training = TRUE
             /\ emitted[k].file.multiple = returns_multiple(gen)
             /\ Len(gen.fields) = 1 =>
                    /\ ~emitted[k].file.multiple
                    /\ emitted[k].file.value = <<source[k][gen.fields[1]]>>
             /\ Len(gen.fields) > 1 =>
                    /\ emitted[k].file.multiple
                    /\ emitted[k].file.value = [j \in 1..Len(gen.fields) |-> source[k][gen.fields[j]]]
        /\ result.returned =>
             /\ Len(result.training) = Len(source)
             /\ result.training = emitted
             /\ ~result.testing.some
             /\ calls = <<TRUE>>

C18_Witness ==
    /\ gen.kind = "MachineDB"
    /\ gen.fields = <<"ri", "msms">>
    /\ result.returned
    /\ Len(result.training) = 2
    /\ result.training[1].file.value = <<"r1", "m2">>
    /\ result.training[2].file.value = <<"r1", "m1">>

-----------------------------------------------------------------------------
(* Properties of to_csv *)

\* the (id, class) pairs of a sequence of rows, the id as the text written or read
IdClassPairs(rows) == { <<PathString(rows[k].file), rows[k].class>> : k \in 1..Len(rows) }

\* C17: after to_csv wrote the train table of a file-based generator to
\* <input>/train.csv, a CSVLabelGenerator with the default column names run on
\* <input> does not fail and emits exactly the (id, class) pairs of that table.
C17_RoundTrip ==
    written.done =>
        /\ pc # "raised"
        /\ pc = "reread" => IdClassPairs(emitted) = IdClassPairs(written.table)

\* the same for a train table that has at least one row
RoundTripOfRows ==
    (written.done /\ written.table # <<>>) =>
        /\ pc # "raised"
        /\ pc = "reread" => IdClassPairs(emitted) = IdClassPairs(written.table)

RoundTripOfRows_Reached ==
    /\ written.done
    /\ pc = "reread"
    /\ Len(written.table) >= 2
    /\ IdClassPairs(emitted) = IdClassPairs(written.table)

-----------------------------------------------------------------------------
(* Properties of Encoder *)

\* encode is past the given line for the current spectrum
Encoding == op \in {"encode", "encodes", "predict"} /\ index >= 1

\* the peaks of the spectrum being encoded, as parsed
Peaks == ParseSpectrum(spectra_list[index])

\* the peaks that share a rounded mass
Members(key) == { k \in 1..Len(Peaks) : Round5(Peaks[k].mz) = key }

\* the sum of the intensities of a set of peaks
RECURSIVE TotalIntensity(_)
TotalIntensity(S) ==
    IF S = {} THEN 0
    ELSE LET k == CHOOSE x \in S : TRUE
         IN  Peaks[k].intensity + TotalIntensity(S \ {k})

\* the rounded masses of the rows of the frame
Retained == { dataframe[k].key : k \in 1..Len(dataframe) }

\* n lies in the encoder's window, both ends included
InWindow(n) == encoder.min_mz <= n /\ n <= encoder.max_mz

\* C12: after the filter of line 59 a group whose peaks all have nominal mass n
\* is in the frame exactly when min_mz <= n <= max_mz, whether the group
\* is one peak or several peaks merged.
C12_InclusiveRange ==
    (Encoding /\ epc \in {"filtered", "normalized"}) =>
        \A key \in GroupKeys(Peaks) :
            \A n \in { Peaks[k].nominal : k \in Members(key) } :
                (\A k \in Members(key) : Peaks[k].nominal = n) =>
                    (key \in Retained <=> InWindow(n))

\* the same for the groups that consist of one peak
InclusiveRangeOfSingles ==
    (Encoding /\ epc \in {"filtered", "normalized"}) =>
        \A key \in GroupKeys(Peaks) :
            Cardinality(Members(key)) = 1 =>
                \A k \in Members(key) : key \in Retained <=> InWindow(Peaks[k].nominal)

InclusiveRangeOfSingles_Reached ==
    /\ Encoding
    /\ epc = "filtered"
    /\ \E key \in Retained :
         \E k \in Members(key) : Members(key) = {k} /\ Peaks[k].nominal = encoder.max_mz
    /\ \E key \in GroupKeys(Peaks) \ Retained : Cardinality(Members(key)) = 1

\* C13: from line 56 on every row of the frame carries the sum of the
\* intensities of all peaks that round to its mass; at line 56 there is one row
\* for every rounded mass of the spectrum, in or out of the window, so the
\* peaks are merged before the window is applied.
C13_IntensitiesSummed ==
    (Encoding /\ epc \in {"grouped", "filtered", "normalized"}) =>
        /\ \A k \in 1..Len(dataframe) :
              dataframe[k].intensity = TotalIntensity(Members(dataframe[k].key))
        /\ epc = "grouped" => Retained = GroupKeys(Peaks)

\* a retained row merged from two peaks, one of them with a nominal mass
\* outside the window
C13_Witness ==
    /\ Encoding
    /\ epc = "filtered"
    /\ \E k \in 1..Len(dataframe) :
         /\ Cardinality(Members(dataframe[k].key)) >= 2
         /\ \E j \in Members(dataframe[k].key) : ~InWindow(Peaks[j].nominal)
         /\ dataframe[k].intensity = TotalIntensity(Members(dataframe[k].key))

\* C14: after lines 61-62 the normalized intensity is never nan: it is 0 when
\* the largest and the smallest retained intensity are equal, and
\* (intensity - min) / (max - min) otherwise.
C14_NormalizationGuarded ==
    (Encoding /\ epc = "normalized") =>
        \A k \in 1..Len(dataframe) :
            LET v   == dataframe[k].intensity_min_max
                min == IntensityMin(dataframe)
                max == IntensityMax(dataframe)
            IN  /\ ~v.nan
                /\ IF max = min
                     THEN v.num = 0
                     ELSE v.num * (max - min) = (dataframe[k].intensity - min) * v.den

\* the same when the retained intensities are not all equal
NormalizationOfDistinct ==
    (Encoding /\ epc = "normalized" /\ dataframe # <<>>
       /\ IntensityMax(dataframe) > IntensityMin(dataframe)) =>
        \A k \in 1..Len(dataframe) :
            LET v == dataframe[k].intensity_min_max
            IN  /\ ~v.nan
                /\ v.num * (IntensityMax(dataframe) - IntensityMin(dataframe))
                     = (dataframe[k].intensity - IntensityMin(dataframe)) * v.den

NormalizationOfDistinct_Reached ==
    /\ Encoding
    /\ epc = "normalized"
    /\ Len(dataframe) >= 2
    /\ IntensityMax(dataframe) > IntensityMin(dataframe)

\* C15: encode, called directly or from predict_from_spectra, never raises,
\* with axis decorations or without.
C15_EncodeCompletes ==
    op \in {"encode", "predict"} => epc # "raised"

\* C16: when encodes ends it has returned, the directory exists and the files
\* in it are the hashes of the spectra, one name per distinct spectrum.
C16_OneFilePerSpectrum ==
    (op = "encodes" /\ epc \in {"done", "raised"}) =>
        /\ epc = "done"
        /\ directory.exists
        /\ directory.files = { Splash(spectra_list[k]) : k \in 1..Len(spectra_list) }

\* encodes makes the directory before the first spectrum is encoded
DirectoryMade ==
    (op = "encodes" /\ epc # "idle") => directory.exists

DirectoryMade_Reached ==
    op = "encodes" /\ epc = "raised" /\ directory.exists /\ directory.files = {}

=============================================================================
